---- MODULE Spec2Model ----
(***************************************************************************)
(* Model of Day-1/app.py: the stateless invoker naive_invoke, the stateful *)
(* invoker logged_invoke, the process-wide conversation list and the       *)
(* structured log records both invokers hand to the logger.                *)
(*                                                                         *)
(* The program is sequential: one invoke runs at a time.  Each invoke is   *)
(* split at the source lines where something observable happens (an append *)
(* to conversation, a log record, the call of the LLM client, the return   *)
(* or the raise), with pc naming the next source line to execute.          *)
(***************************************************************************)
EXTENDS Integers, Sequences, FiniteSets, TLC

(* ---------------- bounds of the model ---------------- *)

\* Number of invokes a run of the model issues.
MaxCalls == 2

\* Largest reading of the clock.
MaxTime == 1

(* ---------------- input domains ---------------- *)

UserTexts == {"My name is Sunil.", "What is my name?"}

SessionIds == {"sid-1", "sid-2"}

ReplyTexts == {"Nice to meet you, Sunil."}

\* str(e) of the exceptions llm_openai.invoke raises.
AdapterErrors == {"rate_limited"}

(* ---------------- optional values (Python None) ---------------- *)

None == <<>>

Some(x) == <<x>>

(* ---------------- messages ---------------- *)

SystemMessage(c) == [role |-> "system", content |-> c]

HumanMessage(c) == [role |-> "user", content |-> c]

AIMessage(c) == [role |-> "assistant", content |-> c]

StatefulSystemText == "You are a concise, professional, and friendly assistant."

StatelessSystemText == "You are a concise, professional assistant."

ModelName == "gpt-4.1-nano"

(* ---------------- what llm_openai.invoke can produce ---------------- *)

\* usage_metadata of a response: the dict of token counters, or None when
\* the remote service reports no usage.
FullUsage == [input_tokens |-> 12, output_tokens |-> 6]

UsageMetadatas == {None, Some(FullUsage)}

Responses == [content : ReplyTexts, usage_metadata : UsageMetadatas]

Exc(type, text) == [type |-> type, text |-> text]

AdapterExceptions == {Exc("Exception", t) : t \in AdapterErrors}

\* dict.get(key): the value, or None when the key is missing.
DictGet(d, key) == IF key \in DOMAIN d THEN Some(d[key]) ELSE None

\* The exception Python raises for None.get(...).
NoneGetError == Exc("AttributeError", "'NoneType' object has no attribute 'get'")

\* str(e)
Str(e) == e.text

(* ---------------- state ---------------- *)

VARIABLES
    conversation,   \* the global list of messages
    log,            \* records handed to logger.info / logger.error, in order
    now,            \* last reading of datetime.now()
    pc,             \* next source line of the running invoke, or "idle"
    frame,          \* locals of the running invoke, and what the LLM client
                    \* got (payload) and gave (response, raised) in it
    calls           \* completed invokes: what went in, what the LLM client
                    \* saw, the records logged, and what the caller got

vars == <<conversation, log, now, pc, frame, calls>>

NoFrame ==
    [fn |-> "none", user_message |-> "", session_id |-> "", start_time |-> 0,
     pre |-> <<>>, log0 |-> 0, payload |-> None, response |-> None,
     raised |-> None, latency |-> None, e |-> None]

Init ==
    /\ conversation = <<SystemMessage(StatefulSystemText)>>
    /\ log = <<>>
    /\ now = 0
    /\ pc = "idle"
    /\ frame = NoFrame
    /\ calls = <<>>

\* datetime.now() after the invoke has started: a reading t of a clock that
\* does not run backwards and has advanced by at most one unit since the
\* last reading.  (The reading at entry is the current time, now.)
ClockReads(t) == t \in now..MaxTime /\ t <= now + 1

\* logger.info(json.dumps(doc)) / logger.error(json.dumps(doc))
Emit(level, doc) == Append(log, [level |-> level, msg |-> doc])

\* The invoke ends: its caller gets the result.
Finish(result) ==
    Append(calls,
           [mode |-> IF frame.fn = "logged_invoke" THEN "stateful" ELSE "stateless",
            user_message |-> frame.user_message,
            session_id |-> frame.session_id,
            pre |-> frame.pre,
            post |-> conversation,
            payload |-> frame.payload,
            response |-> frame.response,
            raised |-> frame.raised,
            events |-> SubSeq(log, frame.log0 + 1, Len(log)),
            result |-> result])

Returned(text) == [kind |-> "return", value |-> text]

Raised(e) == [kind |-> "raise", exc |-> e]

(* ---------------- logged_invoke (stateful) ---------------- *)

\* line 70, 75: entry, start_time = datetime.now()
LoggedEnter(user_message, session_id) ==
    /\ pc = "idle"
    /\ frame' = [NoFrame EXCEPT !.fn = "logged_invoke",
                                !.user_message = user_message,
                                !.session_id = session_id,
                                !.start_time = now,
                                !.pre = conversation,
                                !.log0 = Len(log)]
    /\ pc' = "L77"
    /\ UNCHANGED <<conversation, log, now, calls>>

\* Variant of LoggedAppendUser: the user message is not appended before the
\* start record and the call.
LoggedAppendUserSkipped ==
    /\ pc = "L77"
    /\ pc' = "L79"
    /\ UNCHANGED <<conversation, log, now, frame, calls>>

\* Variant of LoggedAppendUser: the message is inserted at the front.
LoggedAppendUserAtFront ==
    /\ pc = "L77"
    /\ conversation' = <<HumanMessage(frame.user_message)>> \o conversation
    /\ pc' = "L79"
    /\ UNCHANGED <<log, now, frame, calls>>

\* line 77
LoggedAppendUser ==
    /\ pc = "L77"
    /\ conversation' = Append(conversation, HumanMessage(frame.user_message))
    /\ pc' = "L79"
    /\ UNCHANGED <<log, now, frame, calls>>

\* Variant of LoggedLogStart: the record carries an id of the module, not
\* the caller's.
LoggedLogStartOwnSession ==
    /\ pc = "L79"
    /\ log' = Emit("INFO",
                   [event |-> "llm_call_start",
                    session_id |-> "sid-1",
                    timestamp |-> frame.start_time,
                    user_message |-> frame.user_message,
                    model |-> ModelName,
                    mode |-> "stateful"])
    /\ pc' = "L93"
    /\ UNCHANGED <<conversation, now, frame, calls>>

\* lines 79-90
LoggedLogStart ==
    /\ pc = "L79"
    /\ log' = Emit("INFO",
                   [event |-> "llm_call_start",
                    session_id |-> frame.session_id,
                    timestamp |-> frame.start_time,
                    user_message |-> frame.user_message,
                    model |-> ModelName,
                    mode |-> "stateful"])
    /\ pc' = "L93"
    /\ UNCHANGED <<conversation, now, frame, calls>>

\* Variant of LoggedInvokeReturns: the history is looked up by session id, and
\* a session id not seen before starts from the system message.
LoggedInvokeReturnsPerSession(response) ==
    /\ pc = "L93"
    /\ frame' = [frame EXCEPT
                    !.payload =
                        IF \E i \in 1..Len(calls) : calls[i].session_id = frame.session_id
                        THEN Some(conversation)
                        ELSE Some(<<conversation[1], HumanMessage(frame.user_message)>>),
                    !.response = Some(response)]
    /\ pc' = "L94"
    /\ UNCHANGED <<conversation, log, now, calls>>

\* Variant of LoggedInvokeReturns: the history is left out of the call.
LoggedInvokeReturnsNoHistory(response) ==
    /\ pc = "L93"
    /\ frame' = [frame EXCEPT !.payload = Some(<<conversation[1],
                                                 HumanMessage(frame.user_message)>>),
                              !.response = Some(response)]
    /\ pc' = "L94"
    /\ UNCHANGED <<conversation, log, now, calls>>

\* line 93: llm_openai.invoke(conversation) returns a response
LoggedInvokeReturns(response) ==
    /\ pc = "L93"
    /\ frame' = [frame EXCEPT !.payload = Some(conversation),
                              !.response = Some(response)]
    /\ pc' = "L94"
    /\ UNCHANGED <<conversation, log, now, calls>>

\* line 93: llm_openai.invoke(conversation) raises
LoggedInvokeRaises(exc) ==
    /\ pc = "L93"
    /\ frame' = [frame EXCEPT !.payload = Some(conversation),
                              !.raised = Some(exc),
                              !.e = Some(exc)]
    /\ pc' = "L115"
    /\ UNCHANGED <<conversation, log, now, calls>>

\* Variant of LoggedAppendReply: the reply is not recorded.
LoggedAppendReplySkipped ==
    /\ pc = "L94"
    /\ \E t \in 0..MaxTime :
          /\ ClockReads(t)
          /\ now' = t
          /\ frame' = [frame EXCEPT !.latency = Some(t - frame.start_time)]
    /\ pc' = "L98"
    /\ UNCHANGED <<conversation, log, calls>>

\* lines 94-96
LoggedAppendReply ==
    /\ pc = "L94"
    /\ \E t \in 0..MaxTime :
          /\ ClockReads(t)
          /\ now' = t
          /\ frame' = [frame EXCEPT !.latency = Some(t - frame.start_time)]
    /\ conversation' = Append(conversation, AIMessage(frame.response[1].content))
    /\ pc' = "L98"
    /\ UNCHANGED <<log, calls>>

\* Variant of LoggedLogSuccess: the success record is emitted before the
\* counters are read.
LoggedLogSuccessEager ==
    /\ pc = "L98"
    /\ \E t \in 0..MaxTime :
          /\ ClockReads(t)
          /\ now' = t
          /\ LET response == frame.response[1]
                 usage == response.usage_metadata
             IN /\ log' = Emit("INFO",
                               [event |-> "llm_call_success",
                                session_id |-> frame.session_id,
                                timestamp |-> t,
                                latency_seconds |-> frame.latency[1],
                                response |-> response.content])
                /\ IF usage = None
                   THEN /\ frame' = [frame EXCEPT !.e = Some(NoneGetError)]
                        /\ pc' = "L115"
                   ELSE /\ pc' = "L112"
                        /\ frame' = frame
    /\ UNCHANGED <<conversation, calls>>

\* lines 98-110: the document is built first (timestamp, then the counters);
\* usage_metadata.get raises when usage_metadata is None, inside the try.
LoggedLogSuccess ==
    /\ pc = "L98"
    /\ \E t \in 0..MaxTime :
          /\ ClockReads(t)
          /\ now' = t
          /\ LET response == frame.response[1]
                 usage == response.usage_metadata
             IN IF usage = None
                THEN /\ frame' = [frame EXCEPT !.e = Some(NoneGetError)]
                     /\ pc' = "L115"
                     /\ log' = log
                ELSE /\ log' = Emit("INFO",
                                    [event |-> "llm_call_success",
                                     session_id |-> frame.session_id,
                                     timestamp |-> t,
                                     latency_seconds |-> frame.latency[1],
                                     response |-> response.content,
                                     output_tokens |-> DictGet(usage[1], "output_tokens"),
                                     input_tokens |-> DictGet(usage[1], "input_tokens")])
                     /\ pc' = "L112"
                     /\ frame' = frame
    /\ UNCHANGED <<conversation, calls>>

\* line 112
LoggedReturn ==
    /\ pc = "L112"
    /\ calls' = Finish(Returned(frame.response[1].content))
    /\ pc' = "idle"
    /\ frame' = NoFrame
    /\ UNCHANGED <<conversation, log, now>>

\* Variant of LoggedLogError: after the first failure of the LLM client the
\* handler logs the error and tries the call again.
LoggedLogErrorRetry ==
    /\ pc = "L115"
    /\ \E t1, t2 \in 0..MaxTime :
          /\ ClockReads(t1)
          /\ t2 \in t1..MaxTime /\ t2 <= t1 + 1
          /\ now' = t2
          /\ frame' = [frame EXCEPT !.latency = Some(t1 - frame.start_time)]
          /\ log' = Emit("ERROR",
                         [event |-> "llm_call_error",
                          session_id |-> frame.session_id,
                          timestamp |-> t2,
                          latency_seconds |-> t1 - frame.start_time,
                          error |-> Str(frame.e[1])])
    /\ pc' = IF frame.raised # None /\ frame.latency = None THEN "L93" ELSE "L129"
    /\ UNCHANGED <<conversation, calls>>

\* Variant of LoggedLogError: the handler takes the invoke's appends back.
LoggedLogErrorRollback ==
    /\ pc = "L115"
    /\ \E t1, t2 \in 0..MaxTime :
          /\ ClockReads(t1)
          /\ t2 \in t1..MaxTime /\ t2 <= t1 + 1
          /\ now' = t2
          /\ frame' = [frame EXCEPT !.latency = Some(t1 - frame.start_time)]
          /\ log' = Emit("ERROR",
                         [event |-> "llm_call_error",
                          session_id |-> frame.session_id,
                          timestamp |-> t2,
                          latency_seconds |-> t1 - frame.start_time,
                          error |-> Str(frame.e[1])])
    /\ conversation' = frame.pre
    /\ pc' = "L129"
    /\ UNCHANGED calls

\* lines 114-127
LoggedLogError ==
    /\ pc = "L115"
    /\ \E t1, t2 \in 0..MaxTime :
          /\ ClockReads(t1)
          /\ t2 \in t1..MaxTime /\ t2 <= t1 + 1
          /\ now' = t2
          /\ frame' = [frame EXCEPT !.latency = Some(t1 - frame.start_time)]
          /\ log' = Emit("ERROR",
                         [event |-> "llm_call_error",
                          session_id |-> frame.session_id,
                          timestamp |-> t2,
                          latency_seconds |-> t1 - frame.start_time,
                          error |-> Str(frame.e[1])])
    /\ pc' = "L129"
    /\ UNCHANGED <<conversation, calls>>

\* Variant of LoggedRaise: the unanswered user message is removed before the
\* exception is raised.
LoggedRaiseCleanup ==
    /\ pc = "L129"
    /\ conversation' = IF frame.raised # None
                       THEN SubSeq(conversation, 1, Len(conversation) - 1)
                       ELSE conversation
    /\ calls' = Append(calls,
                       [mode |-> "stateful",
                        user_message |-> frame.user_message,
                        session_id |-> frame.session_id,
                        pre |-> frame.pre,
                        post |-> conversation',
                        payload |-> frame.payload,
                        response |-> frame.response,
                        raised |-> frame.raised,
                        events |-> SubSeq(log, frame.log0 + 1, Len(log)),
                        result |-> Raised(frame.e[1])])
    /\ pc' = "idle"
    /\ frame' = NoFrame
    /\ UNCHANGED <<log, now>>

\* Variant of LoggedRaise: the handler raises an exception of its own.
LoggedRaiseWrapped ==
    /\ pc = "L129"
    /\ calls' = Finish(Raised(Exc("RuntimeError", "LLM call failed")))
    /\ pc' = "idle"
    /\ frame' = NoFrame
    /\ UNCHANGED <<conversation, log, now>>

\* line 129
LoggedRaise ==
    /\ pc = "L129"
    /\ calls' = Finish(Raised(frame.e[1]))
    /\ pc' = "idle"
    /\ frame' = NoFrame
    /\ UNCHANGED <<conversation, log, now>>

(* ---------------- naive_invoke (stateless) ---------------- *)

\* line 137, 143: entry, start_time = datetime.now()
NaiveEnter(user_message, session_id) ==
    /\ pc = "idle"
    /\ frame' = [NoFrame EXCEPT !.fn = "naive_invoke",
                                !.user_message = user_message,
                                !.session_id = session_id,
                                !.start_time = now,
                                !.pre = conversation,
                                !.log0 = Len(log)]
    /\ pc' = "N145"
    /\ UNCHANGED <<conversation, log, now, calls>>

\* lines 145-156
NaiveLogStart ==
    /\ pc = "N145"
    /\ log' = Emit("INFO",
                   [event |-> "llm_call_start",
                    session_id |-> frame.session_id,
                    timestamp |-> frame.start_time,
                    user_message |-> frame.user_message,
                    model |-> ModelName,
                    mode |-> "stateless"])
    /\ pc' = "N159"
    /\ UNCHANGED <<conversation, now, frame, calls>>

\* Variant of NaivePayload: the call is made on the accumulated history.
NaivePayloadWithHistory(user_message) ==
    Append(conversation, HumanMessage(user_message))

\* lines 160-163: the list naive_invoke builds for the call
NaivePayload(user_message) ==
    <<SystemMessage(StatelessSystemText), HumanMessage(user_message)>>

\* Variant of NaiveInvokeReturns: the exchange is recorded in conversation.
NaiveInvokeReturnsRecording(response) ==
    /\ pc = "N159"
    /\ frame' = [frame EXCEPT !.payload = Some(NaivePayload(frame.user_message)),
                              !.response = Some(response)]
    /\ conversation' = conversation \o <<HumanMessage(frame.user_message),
                                          AIMessage(response.content)>>
    /\ pc' = "N166"
    /\ UNCHANGED <<log, now, calls>>

\* lines 159-164: llm_openai.invoke([...]) returns a response
NaiveInvokeReturns(response) ==
    /\ pc = "N159"
    /\ frame' = [frame EXCEPT !.payload = Some(NaivePayload(frame.user_message)),
                              !.response = Some(response)]
    /\ pc' = "N166"
    /\ UNCHANGED <<conversation, log, now, calls>>

\* lines 159-164: llm_openai.invoke([...]) raises
NaiveInvokeRaises(exc) ==
    /\ pc = "N159"
    /\ frame' = [frame EXCEPT !.payload = Some(NaivePayload(frame.user_message)),
                              !.raised = Some(exc),
                              !.e = Some(exc)]
    /\ pc' = "N185"
    /\ UNCHANGED <<conversation, log, now, calls>>

\* Variant of NaiveLogSuccess: the latency is taken as start minus end.
NaiveLogSuccessReversed ==
    /\ pc = "N166"
    /\ \E t1, t2 \in 0..MaxTime :
          /\ ClockReads(t1)
          /\ t2 \in t1..MaxTime /\ t2 <= t1 + 1
          /\ now' = t2
          /\ LET response == frame.response[1]
                 usage == response.usage_metadata
             IN IF usage = None
                THEN /\ frame' = [frame EXCEPT !.latency = Some(frame.start_time - t1),
                                               !.e = Some(NoneGetError)]
                     /\ pc' = "N185"
                     /\ log' = log
                ELSE /\ log' = Emit("INFO",
                                    [event |-> "llm_call_success",
                                     session_id |-> frame.session_id,
                                     timestamp |-> t2,
                                     latency_seconds |-> frame.start_time - t1,
                                     response |-> response.content,
                                     output_tokens |-> DictGet(usage[1], "output_tokens"),
                                     input_tokens |-> DictGet(usage[1], "input_tokens")])
                     /\ pc' = "N182"
                     /\ frame' = [frame EXCEPT !.latency = Some(frame.start_time - t1)]
    /\ UNCHANGED <<conversation, calls>>

\* lines 166-180: latency, then the document (timestamp, then the counters);
\* usage_metadata.get raises when usage_metadata is None, inside the try.
NaiveLogSuccess ==
    /\ pc = "N166"
    /\ \E t1, t2 \in 0..MaxTime :
          /\ ClockReads(t1)
          /\ t2 \in t1..MaxTime /\ t2 <= t1 + 1
          /\ now' = t2
          /\ LET response == frame.response[1]
                 usage == response.usage_metadata
             IN IF usage = None
                THEN /\ frame' = [frame EXCEPT !.latency = Some(t1 - frame.start_time),
                                               !.e = Some(NoneGetError)]
                     /\ pc' = "N185"
                     /\ log' = log
                ELSE /\ log' = Emit("INFO",
                                    [event |-> "llm_call_success",
                                     session_id |-> frame.session_id,
                                     timestamp |-> t2,
                                     latency_seconds |-> t1 - frame.start_time,
                                     response |-> response.content,
                                     output_tokens |-> DictGet(usage[1], "output_tokens"),
                                     input_tokens |-> DictGet(usage[1], "input_tokens")])
                     /\ pc' = "N182"
                     /\ frame' = [frame EXCEPT !.latency = Some(t1 - frame.start_time)]
    /\ UNCHANGED <<conversation, calls>>

\* line 182
NaiveReturn ==
    /\ pc = "N182"
    /\ calls' = Finish(Returned(frame.response[1].content))
    /\ pc' = "idle"
    /\ frame' = NoFrame
    /\ UNCHANGED <<conversation, log, now>>

\* Variant of NaiveLogError: the error record is logged with logger.info.
NaiveLogErrorAsInfo ==
    /\ pc = "N185"
    /\ \E t1, t2 \in 0..MaxTime :
          /\ ClockReads(t1)
          /\ t2 \in t1..MaxTime /\ t2 <= t1 + 1
          /\ now' = t2
          /\ frame' = [frame EXCEPT !.latency = Some(t1 - frame.start_time)]
          /\ log' = Emit("INFO",
                         [event |-> "llm_call_error",
                          session_id |-> frame.session_id,
                          timestamp |-> t2,
                          latency_seconds |-> t1 - frame.start_time,
                          error |-> Str(frame.e[1])])
    /\ pc' = "N199"
    /\ UNCHANGED <<conversation, calls>>

\* Variant of NaiveLogError: the error record carries no timestamp.
NaiveLogErrorNoTimestamp ==
    /\ pc = "N185"
    /\ \E t1, t2 \in 0..MaxTime :
          /\ ClockReads(t1)
          /\ t2 \in t1..MaxTime /\ t2 <= t1 + 1
          /\ now' = t2
          /\ frame' = [frame EXCEPT !.latency = Some(t1 - frame.start_time)]
          /\ log' = Emit("ERROR",
                         [event |-> "llm_call_error",
                          session_id |-> frame.session_id,
                          latency_seconds |-> t1 - frame.start_time,
                          error |-> Str(frame.e[1])])
    /\ pc' = "N199"
    /\ UNCHANGED <<conversation, calls>>

\* lines 184-197
NaiveLogError ==
    /\ pc = "N185"
    /\ \E t1, t2 \in 0..MaxTime :
          /\ ClockReads(t1)
          /\ t2 \in t1..MaxTime /\ t2 <= t1 + 1
          /\ now' = t2
          /\ frame' = [frame EXCEPT !.latency = Some(t1 - frame.start_time)]
          /\ log' = Emit("ERROR",
                         [event |-> "llm_call_error",
                          session_id |-> frame.session_id,
                          timestamp |-> t2,
                          latency_seconds |-> t1 - frame.start_time,
                          error |-> Str(frame.e[1])])
    /\ pc' = "N199"
    /\ UNCHANGED <<conversation, calls>>

\* Variant of NaiveRaise: the handler waits instead of raising.
NaiveRaiseStuck ==
    /\ pc = "N199"
    /\ UNCHANGED vars

\* line 199
NaiveRaise ==
    /\ pc = "N199"
    /\ calls' = Finish(Raised(frame.e[1]))
    /\ pc' = "idle"
    /\ frame' = NoFrame
    /\ UNCHANGED <<conversation, log, now>>

(* ---------------- the program ---------------- *)

\* Any caller: it issues up to MaxCalls invokes one after the other, in
\* either mode, and goes on after an invoke that raised.
Next ==
    \/ \E u \in UserTexts, s \in SessionIds :
          Len(calls) < MaxCalls /\ LoggedEnter(u, s)
    \/ LoggedAppendUser
    \/ LoggedLogStart
    \/ \E r \in Responses : LoggedInvokeReturns(r)
    \/ \E x \in AdapterExceptions : LoggedInvokeRaises(x)
    \/ LoggedAppendReply
    \/ LoggedLogSuccess
    \/ LoggedReturn
    \/ LoggedLogError
    \/ LoggedRaise
    \/ \E u \in UserTexts, s \in SessionIds :
          Len(calls) < MaxCalls /\ NaiveEnter(u, s)
    \/ NaiveLogStart
    \/ \E r \in Responses : NaiveInvokeReturns(r)
    \/ \E x \in AdapterExceptions : NaiveInvokeRaises(x)
    \/ NaiveLogSuccess
    \/ NaiveReturn
    \/ NaiveLogError
    \/ NaiveRaise

Spec == Init /\ [][Next]_vars

(* ---------------- progress ---------------- *)

\* A step of the running invoke: the interpreter executes its next
\* statement, or the LLM client answers the pending call.
InvokeStep ==
    \/ LoggedAppendUser
    \/ LoggedLogStart
    \/ \E r \in Responses : LoggedInvokeReturns(r)
    \/ \E x \in AdapterExceptions : LoggedInvokeRaises(x)
    \/ LoggedAppendReply
    \/ LoggedLogSuccess
    \/ LoggedReturn
    \/ LoggedLogError
    \/ LoggedRaise
    \/ NaiveLogStart
    \/ \E r \in Responses : NaiveInvokeReturns(r)
    \/ \E x \in AdapterExceptions : NaiveInvokeRaises(x)
    \/ NaiveLogSuccess
    \/ NaiveReturn
    \/ NaiveLogError
    \/ NaiveRaise

\* A caller as in Next that correlates all its invokes under one session id
\* (the session id has no part in the control flow of an invoke).
LiveNext ==
    \/ \E u \in UserTexts : Len(calls) < MaxCalls /\ LoggedEnter(u, "sid-1")
    \/ \E u \in UserTexts : Len(calls) < MaxCalls /\ NaiveEnter(u, "sid-1")
    \/ InvokeStep

\* The program with the running invoke never suspended for ever: its
\* statements execute (there is one thread and no wait in the invokers but
\* the call of the LLM client), and the LLM client eventually returns or
\* raises for every call.
LiveSpec == Init /\ [][LiveNext]_vars /\ WF_vars(InvokeStep)

(* ---------------- run_demo and the main entry ---------------- *)

\* logger.info("Application started") / logger.info("Application finished"):
\* plain text records, not JSON documents.
AppRecord(text) == [level |-> "INFO", msg |-> [text |-> text]]

AppStarted == log # <<>> /\ log[1] = AppRecord("Application started")

AppFinished == log # <<>> /\ log[Len(log)] = AppRecord("Application finished")

\* Variant of NoneRaised: run_demo catches what an invoke raises and goes on.
NoneRaisedOrCaught == TRUE

\* run_demo and the main entry have no try/except: a statement of theirs
\* runs only when no earlier invoke raised.
NoneRaised == \A i \in 1..Len(calls) : calls[i].result.kind = "return"

\* The main program is between statements, n invokes completed.
DemoAt(n) ==
    /\ pc = "idle"
    /\ AppStarted /\ ~AppFinished
    /\ Len(calls) = n
    /\ NoneRaised

\* line 249
MainStart ==
    /\ pc = "idle"
    /\ log = <<>>
    /\ log' = Append(log, AppRecord("Application started"))
    /\ UNCHANGED <<conversation, now, pc, frame, calls>>

\* lines 210-213: session_stateless = str(uuid.uuid4()), first stateless call
DemoStateless1 ==
    /\ DemoAt(0)
    /\ \E s \in SessionIds : NaiveEnter("My name is Sunil.", s)

\* lines 215-216: second stateless call, same session_stateless
DemoStateless2 ==
    /\ DemoAt(1)
    /\ NaiveEnter("What is my name?", calls[1].session_id)

\* lines 220-223: session_stateful = str(uuid.uuid4()), a fresh id, first
\* stateful call
DemoStateful1 ==
    /\ DemoAt(2)
    /\ \E s \in SessionIds \ {calls[1].session_id} :
          LoggedEnter("My name is Sunil.", s)

\* lines 225-226: second stateful call, same session_stateful
DemoStateful2 ==
    /\ DemoAt(3)
    /\ LoggedEnter("What is my name?", calls[3].session_id)

\* line 251
MainFinish ==
    /\ DemoAt(4)
    /\ log' = Append(log, AppRecord("Application finished"))
    /\ UNCHANGED <<conversation, now, pc, frame, calls>>

DemoNext ==
    \/ MainStart
    \/ DemoStateless1
    \/ DemoStateless2
    \/ DemoStateful1
    \/ DemoStateful2
    \/ MainFinish
    \/ LoggedAppendUser
    \/ LoggedLogStart
    \/ \E r \in Responses : LoggedInvokeReturns(r)
    \/ \E x \in AdapterExceptions : LoggedInvokeRaises(x)
    \/ LoggedAppendReply
    \/ LoggedLogSuccess
    \/ LoggedReturn
    \/ LoggedLogError
    \/ LoggedRaise
    \/ NaiveLogStart
    \/ \E r \in Responses : NaiveInvokeReturns(r)
    \/ \E x \in AdapterExceptions : NaiveInvokeRaises(x)
    \/ NaiveLogSuccess
    \/ NaiveReturn
    \/ NaiveLogError
    \/ NaiveRaise

DemoSpec == Init /\ [][DemoNext]_vars

(* ======================================================================= *)
(* Properties                                                              *)
(* ======================================================================= *)

\* The conversation list as the module creates it (lines 50-52).
InitialConversation == <<SystemMessage(StatefulSystemText)>>

IsStateful(c) == c.mode = "stateful"

IsStateless(c) == c.mode = "stateless"

\* The completed stateful invokes, in call order.
StatefulCalls == SelectSeq(calls, IsStateful)

\* The adapter failed in call c / returned a response in call c.
AdapterFailed(c) == c.raised # None

AdapterReturned(c) == c.response # None

EventKinds(c) == [k \in 1..Len(c.events) |-> c.events[k].msg.event]

(* ---------------- C1 ---------------- *)

\* C1: when a stateful invoke(A) is made on the initial conversation and
\* returns the reply R, the next stateful invoke(B) hands the LLM client
\* exactly <<system message, user(A), assistant(R), user(B)>>.
C1_CumulativePayload ==
    \A i, j \in 1..Len(calls) :
        (/\ i < j
         /\ IsStateful(calls[i]) /\ IsStateful(calls[j])
         /\ \A k \in (i + 1)..(j - 1) : IsStateless(calls[k])
         /\ calls[i].pre = InitialConversation
         /\ calls[i].result.kind = "return")
        => calls[j].payload =
              Some(<<SystemMessage(StatefulSystemText),
                     HumanMessage(calls[i].user_message),
                     AIMessage(calls[i].result.value),
                     HumanMessage(calls[j].user_message)>>)

C1_Witness ==
    /\ Len(calls) = 2
    /\ IsStateful(calls[1]) /\ IsStateful(calls[2])
    /\ calls[1].result.kind = "return"
    /\ calls[1].user_message # calls[2].user_message
    /\ Len(calls[2].payload[1]) = 4

(* ---------------- C2 ---------------- *)

\* C2: whatever calls came before, a stateless invoke(B) hands the LLM
\* client exactly the two messages <<fixed system message, user(B)>>.
C2_StatelessIsolation ==
    \A j \in 1..Len(calls) :
        IsStateless(calls[j])
        => /\ calls[j].payload =
                 Some(<<SystemMessage(StatelessSystemText),
                        HumanMessage(calls[j].user_message)>>)
           /\ \A i \in 1..(j - 1), m \in 1..Len(calls[j].payload[1]) :
                 /\ calls[i].user_message # calls[j].user_message
                    => calls[j].payload[1][m].content # calls[i].user_message
                 /\ calls[j].payload[1][m].role # "assistant"

C2_Witness ==
    /\ Len(calls) = 2
    /\ IsStateful(calls[1]) /\ calls[1].result.kind = "return"
    /\ IsStateless(calls[2])
    /\ calls[1].user_message # calls[2].user_message
    /\ Len(conversation) = 3

(* ---------------- C3 ---------------- *)

RECURSIVE Turns(_)
\* The (user, assistant) pairs of the returned stateful invokes cs, in order.
Turns(cs) ==
    IF cs = <<>>
    THEN <<>>
    ELSE <<HumanMessage(Head(cs).user_message), AIMessage(Head(cs).result.value)>>
         \o Turns(Tail(cs))

\* C3: after N stateful invokes that all returned, the conversation is the
\* system message followed by the N (user, assistant) pairs in call order:
\* 1 + 2N messages.
C3_LengthAfterSuccesses ==
    (/\ frame.fn # "logged_invoke"
     /\ \A i \in 1..Len(StatefulCalls) : StatefulCalls[i].result.kind = "return")
    => /\ Len(conversation) = 1 + 2 * Len(StatefulCalls)
       /\ conversation = InitialConversation \o Turns(StatefulCalls)

C3_Witness ==
    /\ pc = "idle"
    /\ Len(StatefulCalls) = 2
    /\ \A i \in 1..2 : StatefulCalls[i].result.kind = "return"
    /\ Len(conversation) = 5

(* ---------------- C4 ---------------- *)

\* C4: when the LLM client raises in a stateful invoke, the conversation
\* after the invoke is the conversation before it with the user message of
\* that invoke appended, and nothing else.
C4_DanglingUserTurn ==
    \A i \in 1..Len(calls) :
        (IsStateful(calls[i]) /\ AdapterFailed(calls[i]))
        => /\ calls[i].post = Append(calls[i].pre, HumanMessage(calls[i].user_message))
           /\ Len(calls[i].post) = Len(calls[i].pre) + 1

C4_Witness ==
    \E i \in 1..Len(calls) :
        /\ IsStateful(calls[i]) /\ AdapterFailed(calls[i])
        /\ calls[i].result.kind = "raise"
        /\ Len(calls[i].pre) = 3

(* ---------------- C5 ---------------- *)

\* C5: a stateless invoke never changes the conversation, whether it returns
\* or raises, and when it returns it returns the text the LLM client gave.
C5_StatelessFrame ==
    /\ frame.fn = "naive_invoke" => conversation = frame.pre
    /\ \A i \in 1..Len(calls) :
          IsStateless(calls[i])
          => /\ calls[i].post = calls[i].pre
             /\ calls[i].result.kind = "return"
                => /\ AdapterReturned(calls[i])
                   /\ calls[i].result.value = calls[i].response[1].content

C5_Witness ==
    \E i \in 1..Len(calls) :
        /\ IsStateless(calls[i]) /\ calls[i].result.kind = "return"
        /\ Len(calls[i].pre) = 3 /\ Len(calls[i].post) = 3


(* ---------------- C6 ---------------- *)

\* The records the running invoke has emitted so far.
EventsInFlight == SubSeq(log, frame.log0 + 1, Len(log))

CompletionKinds == {"llm_call_success", "llm_call_error"}

\* C6: an invoke emits exactly one llm_call_start and then exactly one
\* completion record, llm_call_success or llm_call_error; when the LLM
\* client raised, the two records are llm_call_start and llm_call_error.
C6_EventLifecycle ==
    /\ \A i \in 1..Len(calls) :
          LET kinds == EventKinds(calls[i])
          IN /\ Len(kinds) = 2
             /\ kinds[1] = "llm_call_start"
             /\ kinds[2] \in CompletionKinds
             /\ AdapterFailed(calls[i]) => kinds = <<"llm_call_start", "llm_call_error">>
    /\ pc # "idle"
       => /\ Len(EventsInFlight) <= 2
          /\ \A k \in 1..Len(EventsInFlight) :
                IF k = 1
                THEN EventsInFlight[k].msg.event = "llm_call_start"
                ELSE EventsInFlight[k].msg.event \in CompletionKinds

C6_Witness ==
    \E i, j \in 1..Len(calls) :
        /\ AdapterFailed(calls[i])
        /\ EventKinds(calls[i]) = <<"llm_call_start", "llm_call_error">>
        /\ calls[j].response # None
        /\ calls[j].response[1].usage_metadata = None
        /\ calls[j].result.kind = "raise"

(* ---------------- C7 ---------------- *)

\* C7: when the LLM client raises, the invoker has emitted the
\* llm_call_error record, carrying the description of that exception, by the
\* time it raises, and what it raises to its caller is that same exception.
C7_LogThenPropagate ==
    /\ \A i \in 1..Len(calls) :
          AdapterFailed(calls[i])
          => /\ calls[i].result.kind = "raise"
             /\ calls[i].result.exc = calls[i].raised[1]
             /\ Len(calls[i].events) >= 1
             /\ LET last == calls[i].events[Len(calls[i].events)]
                IN /\ last.msg.event = "llm_call_error"
                   /\ last.msg.error = Str(calls[i].raised[1])
    /\ (pc \in {"L129", "N199"} /\ frame.raised # None)
       => /\ Len(log) > frame.log0
          /\ log[Len(log)].msg.event = "llm_call_error"
          /\ log[Len(log)].msg.error = Str(frame.raised[1])
          /\ frame.e = frame.raised

C7_Witness ==
    \E i, j \in 1..Len(calls) :
        /\ IsStateful(calls[i]) /\ AdapterFailed(calls[i])
        /\ IsStateless(calls[j]) /\ AdapterFailed(calls[j])
        /\ calls[i].result.kind = "raise" /\ calls[j].result.kind = "raise"
        /\ calls[j].events[2].msg.error = "rate_limited"

(* ---------------- C8 ---------------- *)

\* C8 (as claimed): whenever the LLM client returns a response, with or
\* without usage metadata, the invoke emits llm_call_success with the
\* response text and returns that text; it emits no llm_call_error and does
\* not raise.
C8_SuccessWheneverAdapterReturns ==
    \A i \in 1..Len(calls) :
        AdapterReturned(calls[i])
        => /\ calls[i].result.kind = "return"
           /\ EventKinds(calls[i]) = <<"llm_call_start", "llm_call_success">>

(* ---------------- C9 ---------------- *)

\* C9 (as claimed): a stateful invoke that raises leaves the conversation
\* ending with its user message, with no assistant reply of that invoke.
C9_FailureLeavesNoReply ==
    \A i \in 1..Len(calls) :
        (IsStateful(calls[i]) /\ calls[i].result.kind = "raise")
        => calls[i].post = Append(calls[i].pre, HumanMessage(calls[i].user_message))

(* ---------------- C10 ---------------- *)

IsPrefix(s, t) == Len(s) <= Len(t) /\ SubSeq(t, 1, Len(s)) = s

StartsWithSystemMessage(conv) ==
    Len(conv) >= 1 /\ conv[1] = SystemMessage(StatefulSystemText)

\* C11: the conversation is never empty and always starts with the system
\* message of lines 50-52, and every step only appends to it: the
\* conversation before a step is a prefix of the conversation after it.
C11_AppendOnly ==
    [][/\ StartsWithSystemMessage(conversation)
       /\ StartsWithSystemMessage(conversation')
       /\ IsPrefix(conversation, conversation')]_vars

C11_Witness ==
    /\ pc = "idle"
    /\ Len(calls) = 2
    /\ IsStateful(calls[1]) /\ AdapterFailed(calls[1])
    /\ IsStateful(calls[2]) /\ calls[2].result.kind = "return"
    /\ Len(conversation) = 4
    /\ IsPrefix(calls[1].pre, calls[1].post) /\ IsPrefix(calls[1].post, conversation)

(* ---------------- C12 ---------------- *)

\* Program points right after the latency of the running invoke was computed
\* from a clock reading that is still the last one (lines 94-96).
JustTimed == {"L98"}

\* C12: the latency in every llm_call_success and llm_call_error record is
\* >= 0 and is a clock reading taken after the LLM client returned or
\* raised, minus the start time t0, and t0 is the timestamp of the invoke's
\* llm_call_start record.  The reading is the one the invoker took on
\* completion: it is the current time right after it was taken, and it is
\* never later than the timestamp of the completion record.
C12_Latency ==
    /\ \A i \in 1..Len(calls) :
          LET start == calls[i].events[1].msg
              done == calls[i].events[2].msg
          IN /\ done.latency_seconds >= 0
             /\ start.timestamp + done.latency_seconds <= done.timestamp
             /\ AdapterReturned(calls[i]) \/ AdapterFailed(calls[i])
    /\ (pc # "idle" /\ frame.latency # None)
       => /\ frame.latency[1] >= 0
          /\ frame.start_time + frame.latency[1] <= now
          /\ pc \in JustTimed => frame.start_time + frame.latency[1] = now
          /\ frame.response # None \/ frame.raised # None
          /\ EventsInFlight[1].msg.timestamp = frame.start_time
          /\ Len(EventsInFlight) = 2
             => EventsInFlight[2].msg.latency_seconds = frame.latency[1]

C12_Witness ==
    \E i, j \in 1..Len(calls) :
        /\ calls[i].events[2].msg.event = "llm_call_error"
        /\ calls[i].events[2].msg.latency_seconds = 0
        /\ calls[j].events[2].msg.event = "llm_call_success"
        /\ calls[j].events[2].msg.latency_seconds = 1
        /\ calls[j].events[1].msg.timestamp = 0

(* ---------------- C13 ---------------- *)

\* C13: every llm_call_error record is logged at ERROR level and every
\* llm_call_start and llm_call_success record at INFO level.
C13_Severity ==
    \A k \in 1..Len(log) :
        /\ log[k].msg.event = "llm_call_error" => log[k].level = "ERROR"
        /\ log[k].msg.event \in {"llm_call_start", "llm_call_success"}
           => log[k].level = "INFO"

C13_Witness ==
    /\ \E k \in 1..Len(log) :
          log[k].msg.event = "llm_call_error" /\ log[k].msg.error = "rate_limited"
    /\ \E k \in 1..Len(log) : log[k].msg.event = "llm_call_success"
    /\ \E i, j \in 1..Len(calls) : IsStateful(calls[i]) /\ IsStateless(calls[j])

(* ---------------- C14 ---------------- *)

DemoModes == <<"stateless", "stateless", "stateful", "stateful">>

DemoTexts ==
    <<"My name is Sunil.", "What is my name?", "My name is Sunil.", "What is my name?">>

RECURSIVE AllEvents(_)
\* The records of the completed invokes cs, in call order.
AllEvents(cs) == IF cs = <<>> THEN <<>> ELSE Head(cs).events \o AllEvents(Tail(cs))

IsCallStart(rec) == "event" \in DOMAIN rec.msg /\ rec.msg.event = "llm_call_start"

\* C14 (DemoSpec): the demo issues stateless, stateless, stateful, stateful
\* in that order, each invoke starting after the one before it completed;
\* the stateless pair shares one session id and the stateful pair another;
\* once an invoke raised, nothing more happens: no later llm_call_start and
\* no "Application finished" record.
C14_DemoOrder ==
    /\ Len(calls) <= 4
    /\ \A i \in 1..Len(calls) :
          /\ calls[i].mode = DemoModes[i]
          /\ calls[i].user_message = DemoTexts[i]
    /\ pc # "idle"
       => /\ Len(calls) < 4
          /\ frame.fn = (IF DemoModes[Len(calls) + 1] = "stateful"
                         THEN "logged_invoke" ELSE "naive_invoke")
          /\ frame.user_message = DemoTexts[Len(calls) + 1]
    /\ Len(calls) >= 2 => calls[2].session_id = calls[1].session_id
    /\ Len(calls) >= 3 => calls[3].session_id # calls[1].session_id
    /\ Len(calls) >= 4 => calls[4].session_id = calls[3].session_id
    /\ log # <<>>
       => log = <<AppRecord("Application started")>>
                \o AllEvents(calls)
                \o (IF pc = "idle" THEN <<>> ELSE EventsInFlight)
                \o (IF AppFinished THEN <<AppRecord("Application finished")>> ELSE <<>>)
    /\ \A i \in 1..Len(calls) :
          calls[i].result.kind = "raise"
          => /\ i = Len(calls)
             /\ pc = "idle"
             /\ log[Len(log)] = calls[i].events[Len(calls[i].events)]
             /\ Cardinality({k \in 1..Len(log) : IsCallStart(log[k])}) = i
             /\ ~AppFinished
    /\ AppFinished => (Len(calls) = 4 /\ NoneRaised)

C14_Witness ==
    /\ Len(calls) = 3
    /\ calls[1].result.kind = "return" /\ calls[2].result.kind = "return"
    /\ calls[3].result.kind = "raise"
    /\ pc = "idle"

(* ---------------- C15 ---------------- *)

\* C15: in a stateful invoke the user message is in the conversation before
\* the llm_call_start record is emitted and before the LLM client is called:
\* the client gets the conversation as it is then, ending with that message.
C15_AppendBeforeStart ==
    /\ (frame.fn = "logged_invoke" /\ Len(EventsInFlight) >= 1)
       => IsPrefix(Append(frame.pre, HumanMessage(frame.user_message)), conversation)
    /\ pc = "L93"
       => conversation = Append(frame.pre, HumanMessage(frame.user_message))
    /\ (frame.fn = "logged_invoke" /\ frame.payload # None)
       => /\ Len(EventsInFlight) >= 1
          /\ frame.payload[1] = Append(frame.pre, HumanMessage(frame.user_message))
    /\ \A i \in 1..Len(calls) :
          IsStateful(calls[i])
          => LET payload == calls[i].payload[1]
             IN /\ payload = Append(calls[i].pre, HumanMessage(calls[i].user_message))
                /\ payload[Len(payload)] = HumanMessage(calls[i].user_message)

C15_Witness ==
    /\ Len(calls) = 2
    /\ IsStateful(calls[1]) /\ IsStateful(calls[2])
    /\ Len(calls[2].payload[1]) = 4
    /\ calls[2].payload[1][4] = HumanMessage("What is my name?")
    /\ calls[2].payload[1][2] = HumanMessage("My name is Sunil.")

(* ---------------- C16 ---------------- *)

CallSites == {"L93", "N159"}

\* C16: an invoke calls the LLM client exactly once: the client is called
\* only from the call site, only when it has not yet been called in this
\* invoke, and every invoke that ends has called it; after a failure the
\* invoke never comes back to the call site; and once the completion record
\* of an invoke is out, no record is emitted until another invoke starts.
C16_SingleAttempt ==
    [][/\ (pc' # "idle" /\ frame'.payload # frame.payload)
          => (pc \in CallSites /\ frame.payload = None)
       /\ (pc # "idle" /\ pc' = "idle")
          => (frame.payload # None /\ calls' = Append(calls, calls'[Len(calls')]))
       /\ (pc # "idle" /\ frame.raised # None) => pc' \notin CallSites
       /\ (pc # "idle" /\ frame.payload # None) => pc' \notin CallSites
       /\ (pc = "idle" \/ Len(EventsInFlight) >= 2) => log' = log
       /\ IsPrefix(log, log')]_vars

C16_Witness ==
    /\ Len(calls) = 2
    /\ AdapterFailed(calls[1]) /\ AdapterFailed(calls[2])
    /\ IsStateful(calls[1]) /\ IsStateless(calls[2])
    /\ Len(log) = 4

(* ---------------- C17 ---------------- *)

RECURSIVE HistoryOf(_)
\* The conversation after the completed invokes cs, computed from their
\* modes, user texts and LLM client outcomes alone; no session id is read.
HistoryOf(cs) ==
    IF cs = <<>>
    THEN InitialConversation
    ELSE LET c == cs[Len(cs)]
             h == HistoryOf(SubSeq(cs, 1, Len(cs) - 1))
         IN IF c.mode = "stateless"
            THEN h
            ELSE IF c.response # None
                 THEN h \o <<HumanMessage(c.user_message),
                             AIMessage(c.response[1].content)>>
                 ELSE Append(h, HumanMessage(c.user_message))

\* C17: the payload of a stateful invoke and the conversation it leaves are
\* determined by the user texts and LLM client outcomes of the stateful
\* invokes so far, whatever session ids were supplied: stateful invokes made
\* under different session ids share one history.
C17_SessionIndependence ==
    /\ pc = "idle" => conversation = HistoryOf(calls)
    /\ \A i \in 1..Len(calls) :
          /\ calls[i].pre = HistoryOf(SubSeq(calls, 1, i - 1))
          /\ calls[i].post = HistoryOf(SubSeq(calls, 1, i))
          /\ IsStateful(calls[i])
             => calls[i].payload[1] = Append(HistoryOf(SubSeq(calls, 1, i - 1)),
                                             HumanMessage(calls[i].user_message))

C17_Witness ==
    /\ Len(calls) = 2
    /\ IsStateful(calls[1]) /\ IsStateful(calls[2])
    /\ calls[1].session_id # calls[2].session_id
    /\ calls[1].result.kind = "return"
    /\ calls[2].payload[1][2] = HumanMessage(calls[1].user_message)
    /\ calls[2].payload[1][3] = AIMessage(calls[1].result.value)

(* ---------------- C18 ---------------- *)

\* C18: every record an invoke emits carries the session_id its caller
\* supplied, so its start and completion records have equal session ids.
C18_SessionOnEveryEvent ==
    /\ pc # "idle"
       => \A k \in 1..Len(EventsInFlight) :
             EventsInFlight[k].msg.session_id = frame.session_id
    /\ \A i \in 1..Len(calls) :
          /\ \A k \in 1..Len(calls[i].events) :
                calls[i].events[k].msg.session_id = calls[i].session_id
          /\ calls[i].events[1].msg.session_id
                = calls[i].events[Len(calls[i].events)].msg.session_id

C18_Witness ==
    /\ Len(calls) = 2
    /\ calls[1].session_id = "sid-2" /\ calls[2].session_id = "sid-1"
    /\ IsStateful(calls[1]) /\ IsStateless(calls[2])
    /\ EventKinds(calls[1]) = <<"llm_call_start", "llm_call_error">>
    /\ EventKinds(calls[2]) = <<"llm_call_start", "llm_call_success">>

(* ---------------- C19 ---------------- *)

\* C19 (LiveSpec): every invoke that has emitted its llm_call_start record
\* eventually ends: control is back at the caller, and the invoke completed
\* last has returned a text or raised, with its completion record emitted.
\* (Invokes run one at a time, so the first return to the caller after the
\* start record is the end of that invoke.)
C19_EveryStartedInvokeEnds ==
    (pc # "idle" /\ Len(EventsInFlight) >= 1)
    ~> (/\ pc = "idle"
        /\ Len(calls) >= 1
        /\ calls[Len(calls)].result.kind \in {"return", "raise"}
        /\ Len(calls[Len(calls)].events) = 2
        /\ calls[Len(calls)].events[2].msg.event \in CompletionKinds)

C19_Witness ==
    /\ Len(calls) = 1
    /\ pc \in {"N159", "L93"}
    /\ Len(EventsInFlight) = 1
    /\ calls[1].result.kind = "raise"

(* ---------------- C20 ---------------- *)

\* C20: the user message left by a stateful invoke(A) in which the LLM
\* client raised stays in the conversation and is sent with the next
\* stateful invoke(B): the payload of that invoke ends with user(A), user(B),
\* no assistant message between them.
C20_DanglingTurnResent ==
    \A i, j \in 1..Len(calls) :
        (/\ i < j
         /\ IsStateful(calls[i]) /\ IsStateful(calls[j])
         /\ \A k \in (i + 1)..(j - 1) : IsStateless(calls[k])
         /\ AdapterFailed(calls[i]))
        => LET payload == calls[j].payload[1]
               n == Len(payload)
           IN /\ n >= 3
              /\ payload[n - 1] = HumanMessage(calls[i].user_message)
              /\ payload[n] = HumanMessage(calls[j].user_message)
              /\ payload = calls[i].pre \o <<HumanMessage(calls[i].user_message),
                                             HumanMessage(calls[j].user_message)>>

C20_Witness ==
    /\ Len(calls) = 2
    /\ IsStateful(calls[1]) /\ AdapterFailed(calls[1])
    /\ IsStateful(calls[2])
    /\ calls[1].user_message # calls[2].user_message
    /\ calls[2].payload[1] = <<SystemMessage(StatefulSystemText),
                               HumanMessage(calls[1].user_message),
                               HumanMessage(calls[2].user_message)>>

====
